---- MODULE Spec2Model ----
(***************************************************************************)
(* Model of the Bonsai relay (relay/src/lib.rs): the relay loop            *)
(* run_with_ethers_client, the image lookup resolve_guest_entry, the       *)
(* backend dispatch resolve_image_output, local execution prove_locally    *)
(* and the remote flow prove_alpha with its status poll loop.              *)
(*                                                                         *)
(* Bytes are naturals 0..255, byte strings are sequences of bytes, a text  *)
(* string is a sequence of one-character strings.  A Result is a record    *)
(* [ok, val, err]: Ok(v) carries val = v and err = "", Err(e) carries      *)
(* val = <<>> and err = e.                                                 *)
(***************************************************************************)
EXTENDS Integers, Sequences, FiniteSets, TLC

\* ------------------------------------------------------------------------
\* Bounds of the model.

\* Events the chain client delivers in one run of the relay.
MaxEvents == 3
\* Status queries one remote job answers before the model stops following it.
MaxPolls == 3

\* ------------------------------------------------------------------------
\* Results (anyhow::Result, Option) and text helpers.

Ok(v) == [ok |-> TRUE, val |-> v, err |-> ""]

Err(e) == [ok |-> FALSE, val |-> <<>>, err |-> e]

\* Result::context / Context::context: an error is replaced by the context
\* message, a value passes through.
WithContext(r, msg) == IF r.ok THEN r ELSE Err(msg)

LowerChars == << "a", "b", "c", "d", "e", "f", "g", "h", "i", "j", "k", "l", "m",
                 "n", "o", "p", "q", "r", "s", "t", "u", "v", "w", "x", "y", "z" >>

UpperChars == << "A", "B", "C", "D", "E", "F", "G", "H", "I", "J", "K", "L", "M",
                 "N", "O", "P", "Q", "R", "S", "T", "U", "V", "W", "X", "Y", "Z" >>

\* str::to_lowercase, character by character.
to_lowercase(s) ==
    [i \in 1..Len(s) |->
        IF \E k \in 1..Len(UpperChars) : UpperChars[k] = s[i]
        THEN LowerChars[CHOOSE k \in 1..Len(UpperChars) : UpperChars[k] = s[i]]
        ELSE s[i]]

\* str::to_uppercase, character by character.
to_uppercase(s) ==
    [i \in 1..Len(s) |->
        IF \E k \in 1..Len(LowerChars) : LowerChars[k] = s[i]
        THEN UpperChars[CHOOSE k \in 1..Len(LowerChars) : LowerChars[k] = s[i]]
        ELSE s[i]]

\* str::trim_start_matches("0x"): strips the prefix as often as it repeats.
RECURSIVE trim_start_matches_0x(_)
trim_start_matches_0x(s) ==
    IF Len(s) >= 2 /\ s[1] = "0" /\ s[2] = "x"
    THEN trim_start_matches_0x(SubSeq(s, 3, Len(s)))
    ELSE s

\* ------------------------------------------------------------------------
\* The hex crate.

HexChars == << "0", "1", "2", "3", "4", "5", "6", "7",
               "8", "9", "a", "b", "c", "d", "e", "f" >>

\* hex::encode: two lowercase digits per byte, high nibble first.
hex_encode(bytes) ==
    [i \in 1..(2 * Len(bytes)) |->
        IF i % 2 = 1
        THEN HexChars[(bytes[(i + 1) \div 2] \div 16) + 1]
        ELSE HexChars[(bytes[i \div 2] % 16) + 1]]

\* Value of one hex digit (either case), -1 for any other character.
HexVal(c) ==
    IF \E k \in 1..16 : HexChars[k] = c
    THEN (CHOOSE k \in 1..16 : HexChars[k] = c) - 1
    ELSE IF \E k \in 1..6 : UpperChars[k] = c
         THEN (CHOOSE k \in 1..6 : UpperChars[k] = c) + 9
         ELSE -1

\* hex::decode: Err on an odd length or on a character that is no hex digit.
hex_decode(s) ==
    IF Len(s) % 2 = 1 THEN Err("OddLength")
    ELSE IF \E i \in 1..Len(s) : HexVal(s[i]) = -1 THEN Err("InvalidHexCharacter")
    ELSE Ok([i \in 1..(Len(s) \div 2) |-> 16 * HexVal(s[2 * i - 1]) + HexVal(s[2 * i])])

\* ------------------------------------------------------------------------
\* Image identifiers.

\* bytemuck::cast::<[u32; 8], [u8; 32]>: each word gives four bytes, least
\* significant first (little-endian target).
cast_u32x8_u8x32(words) ==
    [i \in 1..(4 * Len(words)) |->
        LET w == words[((i - 1) \div 4) + 1]
            k == (i - 1) % 4
        IN  CASE k = 0 -> w % 256
              [] k = 1 -> (w \div 256) % 256
              [] k = 2 -> (w \div 65536) % 256
              [] k = 3 -> (w \div 16777216) % 256]

\* [0u8; 32]
ZeroId == [i \in 1..32 |-> 0]

\* Vec<u8>::try_into::<[u8; 32]>().unwrap_or([0u8; 32])
try_into_32(bytes) == IF Len(bytes) = 32 THEN bytes ELSE ZeroId

\* ------------------------------------------------------------------------
\* The registry (GUEST_LIST) and the events of the proxy contract.

\* GuestListEntry records: name, elf and image_id as eight u32 words.
FibonacciEntry ==
    [name |-> << "F", "I", "B" >>, elf |-> "fib.elf",
     image_id |-> << 16909060, 0, 0, 0, 0, 0, 0, 2130706432 >>]

SwapEntry ==
    [name |-> << "S", "W", "A", "P" >>, elf |-> "swap.elf",
     image_id |-> << 2018915346, 1, 0, 0, 0, 0, 0, 0 >>]

\* The registries a build of the relay may be linked with.
Registries == { << FibonacciEntry, SwapEntry >>, << SwapEntry >> }

\* Journals the guests may write.
Outputs == { << 1, 2 >>, << >> }

\* CallbackRequest(address,bytes32,bytes,address,bytes4,uint64) events as
\* parse_log decodes them.
CallbackRequest(image_id, input, contract, selector, gas) ==
    [image_id |-> image_id, input |-> input, callback_contract |-> contract,
     function_selector |-> selector, gas_limit |-> gas]

Events ==
    { CallbackRequest(cast_u32x8_u8x32(FibonacciEntry.image_id), << 7 >>,
                      "0xC0", << 170, 187, 204, 221 >>, 100000),
      CallbackRequest(cast_u32x8_u8x32(SwapEntry.image_id), << 0, 255 >>,
                      "0xC1", << 1, 2, 3, 4 >>, 3000000),
      CallbackRequest(ZeroId, << >>,
                      "0xC0", << 170, 187, 204, 221 >>, 100000) }

\* Values of the BONSAI_PROVING environment variable: <<>> when it is not
\* set, <<v>> when it is set to v.
EnvValues == { << >>, << "local" >>, << "bonsai" >>, << "remote" >> }

\* ------------------------------------------------------------------------
\* resolve_guest_entry

\* The [u8; 32] the selector is compared with: the decoded selector, or 32
\* zero bytes when it is no hex string of 32 bytes.
potential_guest_image_id(guest_binary) ==
    LET d == hex_decode(trim_start_matches_0x(to_lowercase(guest_binary)))
    IN  IF d.ok THEN try_into_32(d.val) ELSE ZeroId

\* The closure given to find.
EntryMatches(e, guest_binary) ==
    \/ e.name = to_uppercase(guest_binary)
    \/ cast_u32x8_u8x32(e.image_id) = potential_guest_image_id(guest_binary)

\* resolve_guest_entry that gives the head of the list whenever some entry
\* matches.
resolve_guest_entry_head(list, guest_binary) ==
    IF \A i \in 1..Len(list) : ~EntryMatches(list[i], guest_binary)
    THEN Err("Unknown guest binary")
    ELSE Ok(list[1])

\* Iterator::find gives the first matching entry, ok_or_else the error.
resolve_guest_entry(list, guest_binary) ==
    LET hits == { i \in 1..Len(list) : EntryMatches(list[i], guest_binary) }
    IN  IF hits = {} THEN Err("Unknown guest binary")
        ELSE Ok(list[CHOOSE i \in hits : \A j \in hits : i <= j])

\* ------------------------------------------------------------------------
\* State.

VARIABLES
    guest_list,          \* GUEST_LIST, the static registry
    env_BONSAI_PROVING,  \* the BONSAI_PROVING environment variable
    pc,                  \* where the relay task is
    reqs,                \* the events pulled so far, with what became of each
    submitted,           \* the invoke_callbacks transactions handed to the chain client
    panic_msg,           \* the message of the panic that ended the task, or ""
    job,                 \* arguments of the backend call of the current event
    alpha_pc,            \* where prove_alpha is
    calls,               \* capability calls made for the current event, in order
    responses,           \* status responses the poll loop has received
    slept,               \* seconds the poll loop has slept
    uploads,             \* prove_alpha's img_id and input_id
    session,             \* the remote session created for the current event
    receipt_buf,         \* what client.download gave for the current event
    upload_res,          \* what upload_img and upload_input gave for the current event
    images,              \* the image ids the remote service holds
    selector,            \* a guest_binary given to resolve_guest_entry on its own
    found,               \* what resolve_guest_entry gave for selector
    engine,              \* the local engine's answer for one elf and input
    plain,               \* what prove_locally gives for it without a proof
    proved               \* what prove_locally gives for it with a proof

vars == << guest_list, env_BONSAI_PROVING, pc, reqs, submitted, panic_msg,
           job, alpha_pc, calls, responses, slept, uploads, session,
           receipt_buf, upload_res, images, selector, found, engine, plain, proved >>

relay_vars == << pc, reqs, submitted, panic_msg >>

alpha_vars == << alpha_pc, responses, slept, uploads, session, receipt_buf,
                upload_res, images >>

env_vars == << guest_list, env_BONSAI_PROVING >>

pure_vars == << selector, found, engine, plain, proved >>

\* A result that has not been computed yet.
Pending == [ok |-> FALSE, val |-> << >>, err |-> "pending"]

NoJob == [elf |-> "", input |-> << >>, prove |-> FALSE]

NoSession == [img_id |-> << >>, input_id |-> ""]

NoUploads == [img |-> Pending, input |-> Pending]

NoAnswer == [from_elf |-> FALSE, run |-> Pending, prove |-> FALSE]

\* The event being processed is the last one pulled.
cur == Len(reqs)

event == reqs[cur].event

SetReq(field, v) == [reqs EXCEPT ![cur] = [@ EXCEPT ![field] = v]]

Init ==
    /\ guest_list \in Registries
    /\ env_BONSAI_PROVING \in EnvValues
    /\ pc = "subscribe"
    /\ reqs = << >>
    /\ submitted = << >>
    /\ panic_msg = ""
    /\ job = NoJob
    /\ alpha_pc = "idle"
    /\ calls = << >>
    /\ responses = << >>
    /\ slept = 0
    /\ uploads = NoSession
    /\ session = NoSession
    /\ receipt_buf = Pending
    /\ upload_res = NoUploads
    /\ images = { }
    /\ selector = << >>
    /\ found = Pending
    /\ engine = NoAnswer
    /\ plain = Pending
    /\ proved = Pending

\* A failed expect / a panic: the task ends with the message.
Panic(msg) ==
    /\ pc' = "panicked"
    /\ panic_msg' = msg

\* ------------------------------------------------------------------------
\* run_with_ethers_client: subscription and the event stream.

\* subscribe_logs(&filter).await succeeds.
Subscribe ==
    /\ pc = "subscribe"
    /\ pc' = "next"
    /\ UNCHANGED << reqs, submitted, panic_msg, job, calls >>
    /\ UNCHANGED alpha_vars
    /\ UNCHANGED env_vars
    /\ UNCHANGED pure_vars

\* subscribe_logs(&filter).await fails: expect panics.
SubscribeFails ==
    /\ pc = "subscribe"
    /\ Panic("Failed to subscribe to ethereum event logs")
    /\ UNCHANGED << reqs, submitted, job, calls >>
    /\ UNCHANGED alpha_vars
    /\ UNCHANGED env_vars
    /\ UNCHANGED pure_vars

NewReq(e) == [event |-> e, phase |-> "resolving", entry |-> Pending, journal |-> Pending]

\* PullEvent with the confirmation of the previous transaction not awaited.
PullEvent_unconfirmed ==
    /\ pc \in { "next", "confirm" }
    /\ Len(reqs) < MaxEvents
    /\ \E e \in Events : reqs' = Append(reqs, NewReq(e))
    /\ pc' = "resolve"
    /\ job' = NoJob
    /\ calls' = << >>
    /\ alpha_pc' = "idle"
    /\ responses' = << >>
    /\ slept' = 0
    /\ uploads' = NoSession
    /\ session' = NoSession
    /\ receipt_buf' = Pending
    /\ upload_res' = NoUploads
    /\ UNCHANGED << submitted, panic_msg, images >>
    /\ UNCHANGED env_vars
    /\ UNCHANGED pure_vars

\* proxy_stream.next().await gives Some(event): the loop body starts.
PullEvent ==
    /\ pc = "next"
    /\ Len(reqs) < MaxEvents
    /\ \E e \in Events : reqs' = Append(reqs, NewReq(e))
    /\ pc' = "resolve"
    /\ job' = NoJob
    /\ calls' = << >>
    /\ alpha_pc' = "idle"
    /\ responses' = << >>
    /\ slept' = 0
    /\ uploads' = NoSession
    /\ session' = NoSession
    /\ receipt_buf' = Pending
    /\ upload_res' = NoUploads
    /\ UNCHANGED << submitted, panic_msg, images >>
    /\ UNCHANGED env_vars
    /\ UNCHANGED pure_vars

\* The stream yields a log that parse_log rejects: the map closure panics.
BadLog ==
    /\ pc = "next"
    /\ Panic("must be a callback proof request log")
    /\ UNCHANGED << reqs, submitted, job, calls >>
    /\ UNCHANGED alpha_vars
    /\ UNCHANGED env_vars
    /\ UNCHANGED pure_vars

\* proxy_stream.next().await gives None: the loop and the function end.
StreamEnds ==
    /\ pc = "next"
    /\ pc' = "ended"
    /\ UNCHANGED << reqs, submitted, panic_msg, job, calls >>
    /\ UNCHANGED alpha_vars
    /\ UNCHANGED env_vars
    /\ UNCHANGED pure_vars

\* let image_id = hex::encode(event.image_id);
\* resolve_guest_entry(GUEST_LIST, &image_id).expect(..)
Resolve ==
    /\ pc = "resolve"
    /\ LET r == resolve_guest_entry(guest_list, hex_encode(event.image_id))
       IN  IF r.ok
           THEN /\ reqs' = [reqs EXCEPT ![cur] =
                                [@ EXCEPT !.entry = r, !.phase = "dispatching"]]
                /\ pc' = "dispatch"
                /\ UNCHANGED panic_msg
           ELSE /\ reqs' = [reqs EXCEPT ![cur] =
                                [@ EXCEPT !.entry = r, !.phase = "aborted"]]
                /\ Panic("Failed to resolve guest entry")
    /\ UNCHANGED << submitted, job, calls >>
    /\ UNCHANGED alpha_vars
    /\ UNCHANGED env_vars
    /\ UNCHANGED pure_vars

\* ------------------------------------------------------------------------
\* resolve_image_output

\* env::var("BONSAI_PROVING").unwrap_or("".to_string())
prover == IF env_BONSAI_PROVING = << >> THEN "" ELSE env_BONSAI_PROVING[1]

\* Backend with the local arm asking for no proof.
Backend_local_unproved(p) ==
    CASE p = "bonsai" -> [kind |-> "prove_alpha", prove |-> FALSE]
      [] OTHER        -> [kind |-> "prove_locally", prove |-> FALSE]

\* The backend the match on prover.as_str() selects.
Backend(p) ==
    CASE p = "bonsai" -> [kind |-> "prove_alpha", prove |-> FALSE]
      [] p = "local"  -> [kind |-> "prove_locally", prove |-> TRUE]
      [] OTHER        -> [kind |-> "prove_locally", prove |-> FALSE]

\* The start of resolve_image_output, called with hex::encode(event.input):
\* the input is decoded, the prover is read and the backend is entered.  A
\* decoding error is returned at once.
Dispatch ==
    /\ pc = "dispatch"
    /\ LET input == WithContext(hex_decode(trim_start_matches_0x(hex_encode(event.input))),
                                "Failed to decode input")
           b     == Backend(prover)
       IN  IF ~input.ok
           THEN /\ reqs' = [reqs EXCEPT ![cur] =
                                [@ EXCEPT !.journal = input, !.phase = "dispatched"]]
                /\ pc' = "journal"
                /\ UNCHANGED << job, alpha_pc >>
           ELSE /\ reqs' = SetReq("phase", "proving")
                /\ job' = [elf |-> reqs[cur].entry.val.elf, input |-> input.val,
                           prove |-> b.prove]
                /\ pc' = b.kind
                /\ alpha_pc' = IF b.kind = "prove_alpha" THEN "from_env" ELSE "idle"
    /\ UNCHANGED << submitted, panic_msg, calls, responses, slept, uploads, session, receipt_buf, upload_res, images >>
    /\ UNCHANGED env_vars
    /\ UNCHANGED pure_vars

\* The backend's result comes back to the relay loop.
Return(r) ==
    /\ reqs' = [reqs EXCEPT ![cur] = [@ EXCEPT !.journal = r, !.phase = "dispatched"]]
    /\ pc' = "journal"

\* ------------------------------------------------------------------------
\* prove_locally

\* What the local engine can answer: LocalExecutor::from_elf, exec.run() with
\* the journal of the session, session.prove().
EngineAnswers ==
    { [from_elf |-> f, run |-> r, prove |-> p] :
        f \in BOOLEAN, r \in { Err("run") } \cup { Ok(j) : j \in Outputs }, p \in BOOLEAN }

\* The calls prove_locally makes and the result it returns, for one answer
\* of the engine.
prove_locally_calls(a, prove) ==
    IF ~a.from_elf THEN << "from_elf" >>
    ELSE IF ~a.run.ok THEN << "from_elf", "run" >>
    ELSE IF prove THEN << "from_elf", "run", "prove" >>
    ELSE << "from_elf", "run" >>

\* prove_locally_result with the journal taken from the receipt of the
\* proof, which holds none here.
prove_locally_result_of_receipt(a, prove) ==
    IF ~a.from_elf THEN Err("Failed to instantiate executor")
    ELSE IF ~a.run.ok THEN Err("Failed to run executor")
    ELSE IF prove /\ ~a.prove THEN Err("Failed to prove session")
    ELSE IF prove THEN Ok(<< >>)
    ELSE Ok(a.run.val)

prove_locally_result(a, prove) ==
    IF ~a.from_elf THEN Err("Failed to instantiate executor")
    ELSE IF ~a.run.ok THEN Err("Failed to run executor")
    ELSE IF prove /\ ~a.prove THEN Err("Failed to prove session")
    ELSE Ok(a.run.val)

\* prove_locally(elf, input, prove) runs to its return without suspending.
prove_locally ==
    /\ pc = "prove_locally"
    /\ \E a \in EngineAnswers :
        /\ calls' = calls \o prove_locally_calls(a, job.prove)
        /\ Return(prove_locally_result(a, job.prove))
    /\ UNCHANGED << submitted, panic_msg, job >>
    /\ UNCHANGED alpha_vars
    /\ UNCHANGED env_vars
    /\ UNCHANGED pure_vars

\* ------------------------------------------------------------------------
\* prove_alpha

POLL_INTERVAL_SEC == 4

GuestEntries == { FibonacciEntry, SwapEntry }

\* get_digest: the hex of the image id computed from the elf, which is the
\* image id the build recorded for that elf.
get_digest(elf) ==
    hex_encode(cast_u32x8_u8x32((CHOOSE e \in GuestEntries : e.elf = elf).image_id))

\* Input ids the service hands out.
InputIds == { "input-1" }

\* What session.status(&client) can give: an error, or a response with a
\* status string and an optional receipt_url (<<>> is None, <<u>> is Some(u)).
StatusErr == [ok |-> FALSE, status |-> "", receipt_url |-> << >>]

StatusRes(status, url) == [ok |-> TRUE, status |-> status, receipt_url |-> url]

StatusResponses ==
    { StatusErr,
      StatusRes("RUNNING", << >>),
      StatusRes("SUCCEEDED", << "receipt-url" >>),
      StatusRes("SUCCEEDED", << >>),
      StatusRes("FAILED", << >>),
      StatusRes("ABORTED", << >>) }

\* Blobs a download can give: a bincode SessionReceipt with a journal, or
\* bytes that are no SessionReceipt.
ReceiptBufs ==
    { [receipt |-> TRUE, journal |-> j] : j \in Outputs } \cup
    { [receipt |-> FALSE, journal |-> << >>] }

\* bincode::deserialize::<SessionReceipt>(&receipt_buf)
deserialize(buf) ==
    IF buf.receipt THEN Ok([journal |-> buf.journal]) ELSE Err("bincode")

\* prove_alpha returns: the blocking task ends and resolve_image_output
\* hands its result on.
\* AlphaReturn with the result of the blocking task never taken up.
AlphaReturn_dropped(r) ==
    /\ alpha_pc' = "idle"
    /\ UNCHANGED << pc, reqs >>

\* prove_alpha returns r; the awaited spawn_blocking hands it to the relay.
AlphaReturn(r) ==
    /\ alpha_pc' = "idle"
    /\ Return(r)

\* Client::from_env() and get_digest(elf), before any remote call.
AlphaStart ==
    /\ pc = "prove_alpha"
    /\ alpha_pc = "from_env"
    /\ \/ /\ AlphaReturn(Err("Failed to create client from env var"))
          /\ UNCHANGED uploads
       \/ /\ AlphaReturn(Err("Failed to generate elf memory image"))
          /\ UNCHANGED uploads
       \/ /\ alpha_pc' = "upload_img"
          /\ uploads' = [uploads EXCEPT !.img_id = get_digest(job.elf)]
          /\ UNCHANGED << pc, reqs >>
    /\ UNCHANGED << submitted, panic_msg, job, calls, responses, slept, session, receipt_buf, upload_res, images >>
    /\ UNCHANGED env_vars
    /\ UNCHANGED pure_vars

\* What the service answers to upload_img: an image it holds already exists;
\* one it does not hold is stored, or was stored meanwhile by another
\* client; any upload can fail.
ImgAnswers(img_id) ==
    IF img_id \in images
    THEN { Err("ImageIdExists"), Err("upload_img") }
    ELSE { Ok(<< >>), Err("ImageIdExists"), Err("upload_img") }

\* UploadImg with Err(ImageIdExists) returned like any other error.
UploadImg_strict ==
    /\ pc = "prove_alpha"
    /\ alpha_pc = "upload_img"
    /\ calls' = Append(calls, "upload_img")
    /\ \E r \in ImgAnswers(uploads.img_id) :
        /\ upload_res' = [upload_res EXCEPT !.img = r]
        /\ images' = IF r.err = "upload_img" THEN images ELSE images \cup { uploads.img_id }
        /\ IF r.ok
           THEN /\ alpha_pc' = "upload_input"
                /\ UNCHANGED << pc, reqs >>
           ELSE AlphaReturn(r)
    /\ UNCHANGED << submitted, panic_msg, job, responses, slept, uploads, session,
                    receipt_buf >>
    /\ UNCHANGED env_vars
    /\ UNCHANGED pure_vars

\* client.upload_img(&img_id, elf.to_vec()): Ok and Err(ImageIdExists) go
\* on, any other error is returned.
UploadImg ==
    /\ pc = "prove_alpha"
    /\ alpha_pc = "upload_img"
    /\ calls' = Append(calls, "upload_img")
    /\ \E r \in ImgAnswers(uploads.img_id) :
        /\ upload_res' = [upload_res EXCEPT !.img = r]
        /\ images' = IF r.err = "upload_img" THEN images ELSE images \cup { uploads.img_id }
        /\ IF r.ok \/ r.err = "ImageIdExists"
           THEN /\ alpha_pc' = "upload_input"
                /\ UNCHANGED << pc, reqs >>
           ELSE AlphaReturn(r)
    /\ UNCHANGED << submitted, panic_msg, job, responses, slept, uploads, session,
                    receipt_buf >>
    /\ UNCHANGED env_vars
    /\ UNCHANGED pure_vars

\* UploadInput with a failed upload tried again.
UploadInput_retry ==
    /\ pc = "prove_alpha"
    /\ alpha_pc = "upload_input"
    /\ calls' = Append(calls, "upload_input")
    /\ \E r \in { Ok(id) : id \in InputIds } \cup { Err("upload_input") } :
        /\ upload_res' = [upload_res EXCEPT !.input = r]
        /\ IF r.ok
           THEN /\ alpha_pc' = "create_session"
                /\ uploads' = [uploads EXCEPT !.input_id = r.val]
           ELSE /\ alpha_pc' = "upload_input"
                /\ UNCHANGED uploads
    /\ UNCHANGED << pc, reqs, submitted, panic_msg, job, responses, slept, session,
                    receipt_buf, images >>
    /\ UNCHANGED env_vars
    /\ UNCHANGED pure_vars

\* client.upload_input(input).context(..)?
UploadInput ==
    /\ pc = "prove_alpha"
    /\ alpha_pc = "upload_input"
    /\ calls' = Append(calls, "upload_input")
    /\ \E r \in { Ok(id) : id \in InputIds } \cup { Err("upload_input") } :
        /\ upload_res' = [upload_res EXCEPT !.input = r]
        /\ IF r.ok
           THEN /\ alpha_pc' = "create_session"
                /\ uploads' = [uploads EXCEPT !.input_id = r.val]
                /\ UNCHANGED << pc, reqs >>
           ELSE /\ AlphaReturn(WithContext(r, "Failed to upload input data"))
                /\ UNCHANGED uploads
    /\ UNCHANGED << submitted, panic_msg, job, responses, slept, session, receipt_buf,
                    images >>
    /\ UNCHANGED env_vars
    /\ UNCHANGED pure_vars

\* client.create_session(img_id, input_id).context(..)?
CreateSession ==
    /\ pc = "prove_alpha"
    /\ alpha_pc = "create_session"
    /\ calls' = Append(calls, "create_session")
    /\ \E created \in BOOLEAN :
        IF created
        THEN /\ alpha_pc' = "status"
             /\ session' = uploads
             /\ UNCHANGED << pc, reqs >>
        ELSE /\ AlphaReturn(Err("Failed to create remote proving session"))
             /\ UNCHANGED session
    /\ UNCHANGED << submitted, panic_msg, job, responses, slept, uploads, receipt_buf, upload_res, images >>
    /\ UNCHANGED env_vars
    /\ UNCHANGED pure_vars

\* AfterStatus with a cap on the failed queries: the third query gives up.
AfterStatus_capped(res) ==
    IF ~res.ok THEN (IF Len(responses) >= 2 THEN "return" ELSE "sleep")
    ELSE CASE res.status = "RUNNING"   -> "sleep"
           [] res.status = "SUCCEEDED" ->
                IF res.receipt_url = << >> THEN "return" ELSE "download"
           [] OTHER                    -> "return"

\* AfterStatus with a RUNNING job polled again at once.
AfterStatus_busy(res) ==
    IF ~res.ok THEN "sleep"
    ELSE CASE res.status = "RUNNING"   -> "status"
           [] res.status = "SUCCEEDED" ->
                IF res.receipt_url = << >> THEN "return" ELSE "download"
           [] OTHER                    -> "return"

\* AfterStatus with a missing receipt_url taken for a job not finished yet.
AfterStatus_wait_for_url(res) ==
    IF ~res.ok THEN "sleep"
    ELSE CASE res.status = "RUNNING"   -> "sleep"
           [] res.status = "SUCCEEDED" ->
                IF res.receipt_url = << >> THEN "sleep" ELSE "download"
           [] OTHER                    -> "return"

\* AfterStatus with a status it does not know taken for a job still running.
AfterStatus_wait_on_unknown(res) ==
    IF ~res.ok THEN "sleep"
    ELSE CASE res.status = "RUNNING"   -> "sleep"
           [] res.status = "SUCCEEDED" ->
                IF res.receipt_url = << >> THEN "return" ELSE "download"
           [] OTHER                    -> "sleep"

\* Where the loop body goes for one answer of session.status(&client).
AfterStatus(res) ==
    IF ~res.ok THEN "sleep"
    ELSE CASE res.status = "RUNNING"   -> "sleep"
           [] res.status = "SUCCEEDED" ->
                IF res.receipt_url = << >> THEN "return" ELSE "download"
           [] OTHER                    -> "return"

\* The error the loop body returns when AfterStatus is "return".
StatusError(res) ==
    IF res.status = "SUCCEEDED"
    THEN Err("Missing 'receipt_url' on status response")
    ELSE Err("Proving session exited with bad status: " \o res.status)

\* One session.status(&client) of the poll loop and the match on its answer.
Status ==
    /\ pc = "prove_alpha"
    /\ alpha_pc = "status"
    /\ Len(responses) < MaxPolls
    /\ calls' = Append(calls, "status")
    /\ \E res \in StatusResponses :
        /\ responses' = Append(responses, res)
        /\ IF AfterStatus(res) = "return"
           THEN AlphaReturn(StatusError(res))
           ELSE /\ alpha_pc' = AfterStatus(res)
                /\ UNCHANGED << pc, reqs >>
    /\ UNCHANGED << submitted, panic_msg, job, slept, uploads, session, receipt_buf, upload_res, images >>
    /\ UNCHANGED env_vars
    /\ UNCHANGED pure_vars

\* std::thread::sleep(Duration::from_secs(POLL_INTERVAL_SEC)), then the loop
\* starts over.
Sleep ==
    /\ pc = "prove_alpha"
    /\ alpha_pc = "sleep"
    /\ calls' = Append(calls, "sleep")
    /\ slept' = slept + POLL_INTERVAL_SEC
    /\ alpha_pc' = "status"
    /\ UNCHANGED << pc, reqs, submitted, panic_msg, job, responses, uploads, session, receipt_buf, upload_res, images >>
    /\ UNCHANGED env_vars
    /\ UNCHANGED pure_vars

\* Download with a failed download tried again.
Download_again ==
    /\ pc = "prove_alpha"
    /\ alpha_pc = "download"
    /\ calls' = Append(calls, "download")
    /\ \E r \in { Ok(b) : b \in ReceiptBufs } \cup { Err("download") } :
        /\ receipt_buf' = r
        /\ IF ~r.ok
           THEN /\ alpha_pc' = "download"
                /\ UNCHANGED << pc, reqs >>
           ELSE LET receipt == WithContext(deserialize(r.val),
                                           "Failed to deserialize SessionReceipt")
                IN  IF receipt.ok
                    THEN AlphaReturn(Ok(receipt.val.journal))
                    ELSE AlphaReturn(receipt)
    /\ UNCHANGED << submitted, panic_msg, job, responses, slept, uploads, session,
                   upload_res, images >>
    /\ UNCHANGED env_vars
    /\ UNCHANGED pure_vars

\* client.download(&receipt_url), bincode::deserialize and the return of the
\* receipt's journal.
Download ==
    /\ pc = "prove_alpha"
    /\ alpha_pc = "download"
    /\ calls' = Append(calls, "download")
    /\ \E r \in { Ok(b) : b \in ReceiptBufs } \cup { Err("download") } :
        /\ receipt_buf' = r
        /\ IF ~r.ok
           THEN AlphaReturn(WithContext(r, "Failed to download receipt"))
           ELSE LET receipt == WithContext(deserialize(r.val),
                                           "Failed to deserialize SessionReceipt")
                IN  IF receipt.ok
                    THEN AlphaReturn(Ok(receipt.val.journal))
                    ELSE AlphaReturn(receipt)
    /\ UNCHANGED << submitted, panic_msg, job, responses, slept, uploads, session,
                   upload_res, images >>
    /\ UNCHANGED env_vars
    /\ UNCHANGED pure_vars

\* ------------------------------------------------------------------------
\* run_with_ethers_client: the callback.

\* JournalFails with unwrap_or_default in place of expect: the callback is
\* sent with an empty journal.
JournalFails_unwrap_or_default ==
    /\ pc = "journal"
    /\ ~reqs[cur].journal.ok
    /\ submitted' = Append(submitted,
                           [ev |-> cur,
                            batch |-> << [callback_contract |-> event.callback_contract,
                                          journal_inclusion_proof |-> << >>,
                                          payload |-> event.function_selector \o event.image_id,
                                          gas_limit |-> event.gas_limit] >>])
    /\ reqs' = SetReq("phase", "sending")
    /\ pc' = "send"
    /\ UNCHANGED << panic_msg, job, calls >>
    /\ UNCHANGED alpha_vars
    /\ UNCHANGED env_vars
    /\ UNCHANGED pure_vars

\* resolve_image_output gave an error: expect panics.
JournalFails ==
    /\ pc = "journal"
    /\ ~reqs[cur].journal.ok
    /\ reqs' = SetReq("phase", "aborted")
    /\ Panic("Failed to compute journal output")
    /\ UNCHANGED << submitted, job, calls >>
    /\ UNCHANGED alpha_vars
    /\ UNCHANGED env_vars
    /\ UNCHANGED pure_vars

\* Payload with the image id put before the journal.
Payload_id_first(e, journal_bytes) == e.function_selector \o e.image_id \o journal_bytes

\* [function_selector, journal_bytes, image_id].concat()
Payload(e, journal_bytes) == e.function_selector \o journal_bytes \o e.image_id

\* The Callback entries of proof_batch.
ProofBatch(e, journal_bytes) ==
    << [callback_contract |-> e.callback_contract,
        journal_inclusion_proof |-> << >>,
        payload |-> Payload(e, journal_bytes),
        gas_limit |-> e.gas_limit] >>

\* InvokeCallbacks with a proof_batch that is never cleared: the callbacks of
\* the earlier events are sent again with the new one.
InvokeCallbacks_accumulating ==
    /\ pc = "journal"
    /\ reqs[cur].journal.ok
    /\ submitted' = Append(submitted,
                           [ev |-> cur,
                            batch |-> (IF submitted = << >> THEN << >>
                                       ELSE submitted[Len(submitted)].batch)
                                      \o << [callback_contract |-> event.callback_contract,
                                             journal_inclusion_proof |-> << >>,
                                             payload |-> event.function_selector
                                                         \o reqs[cur].journal.val
                                                         \o event.image_id,
                                             gas_limit |-> event.gas_limit] >>])
    /\ reqs' = SetReq("phase", "sending")
    /\ pc' = "send"
    /\ UNCHANGED << panic_msg, job, calls >>
    /\ UNCHANGED alpha_vars
    /\ UNCHANGED env_vars
    /\ UNCHANGED pure_vars

\* The payload and the batch are built and
\* proxy.invoke_callbacks(proof_batch).send() hands the transaction over.
InvokeCallbacks ==
    /\ pc = "journal"
    /\ reqs[cur].journal.ok
    /\ submitted' = Append(submitted,
                           [ev |-> cur, batch |-> ProofBatch(event, reqs[cur].journal.val)])
    /\ reqs' = SetReq("phase", "sending")
    /\ pc' = "send"
    /\ UNCHANGED << panic_msg, job, calls >>
    /\ UNCHANGED alpha_vars
    /\ UNCHANGED env_vars
    /\ UNCHANGED pure_vars

\* send().await gives the pending transaction.
Sent ==
    /\ pc = "send"
    /\ reqs' = SetReq("phase", "confirming")
    /\ pc' = "confirm"
    /\ UNCHANGED << submitted, panic_msg, job, calls >>
    /\ UNCHANGED alpha_vars
    /\ UNCHANGED env_vars
    /\ UNCHANGED pure_vars

\* send().await gives an error: expect panics.
SendFails ==
    /\ pc = "send"
    /\ reqs' = SetReq("phase", "failed")
    /\ Panic("failed to send callback transaction")
    /\ UNCHANGED << submitted, job, calls >>
    /\ UNCHANGED alpha_vars
    /\ UNCHANGED env_vars
    /\ UNCHANGED pure_vars

\* The pending transaction is confirmed: the loop body ends.
Confirmed ==
    /\ pc = "confirm"
    /\ reqs' = SetReq("phase", "confirmed")
    /\ pc' = "next"
    /\ UNCHANGED << submitted, panic_msg, job, calls >>
    /\ UNCHANGED alpha_vars
    /\ UNCHANGED env_vars
    /\ UNCHANGED pure_vars

\* ConfirmFails with the error logged and the loop going on.
ConfirmFails_logged ==
    /\ pc = "confirm"
    /\ reqs' = SetReq("phase", "failed")
    /\ pc' = "next"
    /\ UNCHANGED << submitted, panic_msg, job, calls >>
    /\ UNCHANGED alpha_vars
    /\ UNCHANGED env_vars
    /\ UNCHANGED pure_vars

\* Waiting for the confirmation gives an error: expect panics.
ConfirmFails ==
    /\ pc = "confirm"
    /\ reqs' = SetReq("phase", "failed")
    /\ Panic("Failed to confirm callback transaction")
    /\ UNCHANGED << submitted, job, calls >>
    /\ UNCHANGED alpha_vars
    /\ UNCHANGED env_vars
    /\ UNCHANGED pure_vars

\* ------------------------------------------------------------------------
\* The relay.

Next ==
    \/ Subscribe
    \/ SubscribeFails
    \/ PullEvent
    \/ BadLog
    \/ StreamEnds
    \/ Resolve
    \/ Dispatch
    \/ prove_locally
    \/ AlphaStart
    \/ UploadImg
    \/ UploadInput
    \/ CreateSession
    \/ Status
    \/ Sleep
    \/ Download
    \/ JournalFails
    \/ InvokeCallbacks
    \/ Sent
    \/ SendFails
    \/ Confirmed
    \/ ConfirmFails

Spec == Init /\ [][Next]_vars

\* ------------------------------------------------------------------------
\* Claims about the relay loop.

\* The submissions made for the event pulled as number i.
SubmissionsOf(i) == { k \in 1..Len(submitted) : submitted[k].ev = i }

\* The event pulled as number i is past the point where its callback is sent.
PastInvoke(i) == i < cur \/ pc \notin { "resolve", "dispatch", "prove_locally",
                                         "prove_alpha", "journal" }

\* The failures of resolution and of dispatch, as opposed to those of the chain.
RequestFailures == { "Failed to resolve guest entry", "Failed to compute journal output" }

\* C1: an event whose resolution or dispatch fails does not stop the relay:
\* the task is never ended by the panic of such a failure, so that it goes
\* on to pull the next event.
C1_FailedRequestDoesNotStopRelay ==
    pc = "panicked" => panic_msg \notin RequestFailures

\* C2: no callback is ever submitted for an event whose resolution or
\* dispatch ended in an error: every submitted callback belongs to an event
\* that was resolved and whose dispatch returned an output.
C2_NoCallbackForFailedEvent ==
    /\ \A k \in 1..Len(submitted) :
        /\ reqs[submitted[k].ev].entry.ok
        /\ reqs[submitted[k].ev].journal.ok
    /\ \A i \in 1..Len(reqs) :
        (reqs[i].entry.err \in { "Unknown guest binary" }
            \/ (reqs[i].journal.err # "" /\ reqs[i].journal.err # "pending"))
        => SubmissionsOf(i) = {}

\* C2 witness: a first event was answered with a callback, a second one
\* failed in dispatch and the relay has acted on the failure.
C2_Witness ==
    /\ Len(reqs) = 2
    /\ Len(submitted) = 1
    /\ reqs[2].entry.ok
    /\ reqs[2].journal.err = "Failed to run executor"
    /\ pc = "panicked"

\* C3: an event that is resolved and whose dispatch returns an output gets
\* exactly one submission once the loop body is past the send, never two
\* before; the submission holds one batch entry with the event's callback
\* contract, an empty inclusion proof, the event's gas limit and the payload
\* selector ++ output ++ content id (4 bytes first, 32 bytes last).
C3_ExactlyOneCallback ==
    /\ \A i \in 1..Len(reqs) :
        /\ Cardinality(SubmissionsOf(i)) <= 1
        /\ (reqs[i].entry.ok /\ reqs[i].journal.ok /\ PastInvoke(i))
            => Cardinality(SubmissionsOf(i)) = 1
    /\ \A k \in 1..Len(submitted) :
        LET e   == reqs[submitted[k].ev].event
            out == reqs[submitted[k].ev].journal.val
            b   == submitted[k].batch
        IN  /\ Len(b) = 1
            /\ b[1].callback_contract = e.callback_contract
            /\ b[1].journal_inclusion_proof = << >>
            /\ b[1].gas_limit = e.gas_limit
            /\ Len(b[1].payload) = 4 + Len(out) + 32
            /\ SubSeq(b[1].payload, 1, 4) = e.function_selector
            /\ SubSeq(b[1].payload, 5, 4 + Len(out)) = out
            /\ SubSeq(b[1].payload, 5 + Len(out), 36 + Len(out)) = e.image_id
    /\ Payload([function_selector |-> << 170, 187, 204, 221 >>, image_id |-> ZeroId],
               << 1, 2 >>)
         = << 170, 187, 204, 221, 1, 2 >> \o ZeroId

\* C3 witness: the callback of an event with the journal 01 02 was sent and
\* confirmed.
C3_Witness ==
    /\ pc = "next"
    /\ Len(submitted) = 1
    /\ reqs[1].journal = Ok(<< 1, 2 >>)
    /\ reqs[1].phase = "confirmed"

\* The events with a backend run in flight, and those with a transaction in
\* flight.
ProvingInFlight == { i \in 1..Len(reqs) : reqs[i].phase = "proving" }

CallbacksInFlight == { i \in 1..Len(reqs) : reqs[i].phase \in { "sending", "confirming" } }

\* C4: events are processed one at a time: at most one backend run and at
\* most one callback transaction are in flight, a remote job runs only for
\* the event being processed, and every event but the last pulled has its
\* transaction confirmed or was aborted.
C4_OneAtATime ==
    /\ Cardinality(ProvingInFlight) <= 1
    /\ Cardinality(CallbacksInFlight) <= 1
    /\ Cardinality(ProvingInFlight \cup CallbacksInFlight) <= 1
    /\ alpha_pc # "idle" => (cur > 0 /\ reqs[cur].phase = "proving")
    /\ \A i \in 1..(Len(reqs) - 1) : reqs[i].phase \in { "confirmed", "aborted" }

\* C4 witness: the second event's remote job is polling after the first
\* event's transaction was confirmed.
C4_Witness ==
    /\ Len(reqs) = 2
    /\ reqs[1].phase = "confirmed"
    /\ reqs[2].phase = "proving"
    /\ alpha_pc = "sleep"

\* C5: callbacks are submitted in the order of delivery: a later submission
\* is for a later event, it is made only when the earlier one is confirmed,
\* and each transaction carries the callback of one event only, its own.
C5_SubmissionOrder ==
    /\ \A k1, k2 \in 1..Len(submitted) :
        k1 < k2 => /\ submitted[k1].ev < submitted[k2].ev
                   /\ reqs[submitted[k1].ev].phase = "confirmed"
    /\ \A k \in 1..Len(submitted) :
        /\ Len(submitted[k].batch) = 1
        /\ submitted[k].batch[1].callback_contract
             = reqs[submitted[k].ev].event.callback_contract

\* C5 witness: two different events were answered, one after the other.
C5_Witness ==
    /\ Len(submitted) = 2
    /\ reqs[1].event # reqs[2].event
    /\ reqs[1].event.callback_contract # reqs[2].event.callback_contract

\* ------------------------------------------------------------------------
\* Claims about the dispatch.

LocalOps == { "from_elf", "run", "prove" }

RemoteOps == { "upload_img", "upload_input", "create_session", "status", "sleep", "download" }

Ops(seq) == { seq[p] : p \in 1..Len(seq) }

Count(seq, x) == Cardinality({ p \in 1..Len(seq) : seq[p] = x })

\* C6: with BONSAI_PROVING set to a value that is none of the recognized
\* ones, dispatch fails at once: no capability, local or remote, is called
\* and no event gets an output.
C6_UnrecognizedModeIsRejected ==
    env_BONSAI_PROVING \notin { << >>, << "local" >>, << "bonsai" >> }
    => /\ calls = << >>
       /\ \A i \in 1..Len(reqs) : ~reqs[i].journal.ok

\* C7 as stated: unset or local runs the local engine and asks for no proof,
\* bonsai never runs the local engine.
C7_LocalNeverProves ==
    /\ env_BONSAI_PROVING \in { << >>, << "local" >> } => Ops(calls) \subseteq { "from_elf", "run" }
    /\ env_BONSAI_PROVING = << "bonsai" >> => Ops(calls) \cap LocalOps = {}

\* C7 as amended: unset runs the local engine and asks for no proof; local
\* runs the local engine and asks it to prove the session before the journal
\* is returned; bonsai drives the remote flow and never runs the local
\* engine.
C7_BackendByMode ==
    /\ env_BONSAI_PROVING = << >> =>
        /\ Ops(calls) \subseteq { "from_elf", "run" }
        /\ (cur > 0 /\ reqs[cur].journal.ok) => calls = << "from_elf", "run" >>
    /\ env_BONSAI_PROVING = << "local" >> =>
        /\ Ops(calls) \subseteq LocalOps
        /\ (cur > 0 /\ reqs[cur].journal.ok) => calls = << "from_elf", "run", "prove" >>
    /\ env_BONSAI_PROVING = << "bonsai" >> =>
        /\ Ops(calls) \subseteq RemoteOps
        /\ (cur > 0 /\ reqs[cur].journal.ok) => calls[Len(calls)] = "download"

\* C7 witness: with BONSAI_PROVING=local an event got its journal after the
\* engine proved the session.
C7_Witness ==
    /\ env_BONSAI_PROVING = << "local" >>
    /\ cur > 0
    /\ reqs[cur].journal = Ok(<< 1, 2 >>)
    /\ calls = << "from_elf", "run", "prove" >>

\* ------------------------------------------------------------------------
\* Claims about the poll loop.

\* A response after which the loop polls again.
NonTerminal(res) == ~res.ok \/ res.status = "RUNNING"

Waits == Cardinality({ n \in 1..Len(responses) : NonTerminal(responses[n]) })

\* The place in calls of the n-th status query.
NthStatus(n) ==
    CHOOSE p \in 1..Len(calls) :
        calls[p] = "status" /\ Cardinality({ q \in 1..p : calls[q] = "status" }) = n

\* C8: a failed status query never ends the job: while the last query has
\* failed, after however many failures, prove_alpha is still in its loop
\* with nothing returned; each failed query is followed by one sleep of
\* POLL_INTERVAL_SEC seconds and then by the next query; and a receipt that
\* is downloaded and decoded after failures is returned as the output.
C8_FailedQueryNeverTerminates ==
    /\ (responses # << >> /\ ~responses[Len(responses)].ok)
        => /\ pc = "prove_alpha"
           /\ alpha_pc \in { "sleep", "status" }
           /\ reqs[cur].journal.err = "pending"
    /\ \A n \in 1..Len(responses) :
        ~responses[n].ok =>
            LET p == NthStatus(n)
            IN  /\ p + 1 <= Len(calls) => calls[p + 1] = "sleep"
                /\ p + 2 <= Len(calls) => calls[p + 2] = "status"
                /\ n < Len(responses) => p + 2 <= Len(calls)
    /\ slept = 4 * Count(calls, "sleep")
    /\ (receipt_buf.ok /\ receipt_buf.val.receipt)
        => reqs[cur].journal = Ok(receipt_buf.val.journal)

\* C8 witness: two failed queries, then SUCCEEDED, and the journal of the
\* downloaded receipt came back.
C8_Witness ==
    /\ responses = << StatusErr, StatusErr, StatusRes("SUCCEEDED", << "receipt-url" >>) >>
    /\ receipt_buf.ok
    /\ reqs[cur].journal = Ok(<< 1, 2 >>)
    /\ slept = 8

\* C9: the loop sleeps once for each RUNNING response and each failed query
\* and not for the terminal response: the sleeps made are as many as the
\* non-terminal responses received (less the one about to be made), only the
\* last response can be terminal, and the script RUNNING, RUNNING, SUCCEEDED
\* gives two sleeps and three queries.
C9_OneSleepPerWait ==
    /\ Count(calls, "status") = Len(responses)
    /\ Count(calls, "sleep") = Waits - (IF alpha_pc = "sleep" THEN 1 ELSE 0)
    /\ \A n \in 1..(Len(responses) - 1) : NonTerminal(responses[n])
    /\ alpha_pc \in { "download", "idle" } => Count(calls, "sleep") = Waits
    /\ (responses = << StatusRes("RUNNING", << >>), StatusRes("RUNNING", << >>),
                      StatusRes("SUCCEEDED", << "receipt-url" >>) >>)
        => /\ Count(calls, "sleep") = 2
           /\ Count(calls, "status") = 3
           /\ slept = 2 * 4

\* C9 witness: the script RUNNING, RUNNING, SUCCEEDED ran to the returned
\* output.
C9_Witness ==
    /\ responses = << StatusRes("RUNNING", << >>), StatusRes("RUNNING", << >>),
                     StatusRes("SUCCEEDED", << "receipt-url" >>) >>
    /\ reqs[cur].journal.ok
    /\ alpha_pc = "idle"

\* C10: SUCCEEDED without a receipt_url ends the loop at once with the
\* missing-receipt error: it is the last response, the status query that got
\* it is the last call (no sleep, no download, no query after it), nothing
\* was downloaded and the dispatch has the error, not an output.
C10_MissingReceiptUrlEndsLoop ==
    \A n \in 1..Len(responses) :
        responses[n] = StatusRes("SUCCEEDED", << >>)
        => /\ n = Len(responses)
           /\ calls[Len(calls)] = "status"
           /\ Count(calls, "sleep") = n - 1
           /\ Count(calls, "download") = 0
           /\ receipt_buf.err = "pending"
           /\ alpha_pc = "idle"
           /\ pc # "prove_alpha"
           /\ reqs[cur].journal.err = "Missing 'receipt_url' on status response"

\* C10 witness: a RUNNING response, then SUCCEEDED without a receipt_url,
\* and the relay has the error.
C10_Witness ==
    /\ responses = << StatusRes("RUNNING", << >>), StatusRes("SUCCEEDED", << >>) >>
    /\ pc = "journal"
    /\ ~reqs[cur].journal.ok

\* A response with a status that is neither RUNNING nor SUCCEEDED.
BadStatus(res) == res.ok /\ res.status \notin { "RUNNING", "SUCCEEDED" }

\* C11: a status other than RUNNING and SUCCEEDED ends the loop at once with
\* the bad-status error that carries the status: it is the last response,
\* the query that got it is the last call (no sleep, no retry, no download
\* after it) and the dispatch has that error.
C11_BadStatusEndsLoop ==
    \A n \in 1..Len(responses) :
        BadStatus(responses[n])
        => /\ n = Len(responses)
           /\ calls[Len(calls)] = "status"
           /\ Count(calls, "status") = n
           /\ Count(calls, "sleep") = n - 1
           /\ Count(calls, "download") = 0
           /\ receipt_buf.err = "pending"
           /\ alpha_pc = "idle"
           /\ pc # "prove_alpha"
           /\ \/ /\ responses[n].status = "FAILED"
                 /\ reqs[cur].journal.err = "Proving session exited with bad status: FAILED"
              \/ /\ responses[n].status = "ABORTED"
                 /\ reqs[cur].journal.err = "Proving session exited with bad status: ABORTED"

\* C11 witness: a failed query, a RUNNING response and then ABORTED; the
\* relay has the error.
C11_Witness ==
    /\ responses = << StatusErr, StatusRes("RUNNING", << >>), StatusRes("ABORTED", << >>) >>
    /\ reqs[cur].journal.err = "Proving session exited with bad status: ABORTED"
    /\ pc = "panicked"

\* ------------------------------------------------------------------------
\* Claims about the uploads.

\* prove_alpha is past the image upload: the input upload is next or made.
PastImgUpload ==
    /\ Len(calls) >= 1
    /\ calls[1] = "upload_img"
    /\ \/ (Len(calls) = 1 /\ alpha_pc = "upload_input" /\ pc = "prove_alpha")
       \/ (Len(calls) >= 2 /\ calls[2] = "upload_input")

\* C12: the image upload is idempotent for the flow: an answer of
\* ImageIdExists is taken like Ok, the flow goes on to the input upload (and
\* from there to the session), and no dispatch ever ends with ImageIdExists.
C12_ImageExistsIsSuccess ==
    /\ (upload_res.img.ok \/ upload_res.img.err = "ImageIdExists") => PastImgUpload
    /\ \A i \in 1..Len(reqs) : reqs[i].journal.err # "ImageIdExists"
    /\ upload_res.img.err = "ImageIdExists" => uploads.img_id \in images

\* C12 witness: two events for the same image; the service held the image at
\* the second dispatch, answered ImageIdExists, and the session was created.
C12_Witness ==
    /\ Len(reqs) = 2
    /\ reqs[1].event.image_id = reqs[2].event.image_id
    /\ reqs[1].phase = "confirmed"
    /\ upload_res.img.err = "ImageIdExists"
    /\ session # NoSession
    /\ alpha_pc = "status"

\* C13: there is no retry at the uploads: each is called at most once for a
\* dispatch, and a failed image upload (other than ImageIdExists) or a failed
\* input upload is the last remote call of the dispatch, which gets the
\* upload error: no session is created, no status is asked, nothing is
\* downloaded.
C13_NoUploadRetry ==
    /\ Count(calls, "upload_img") <= 1
    /\ Count(calls, "upload_input") <= 1
    /\ upload_res.img.err = "upload_img"
        => /\ calls = << "upload_img" >>
           /\ alpha_pc = "idle"
           /\ pc # "prove_alpha"
           /\ session = NoSession
           /\ reqs[cur].journal.err = "upload_img"
    /\ upload_res.input.err = "upload_input"
        => /\ calls = << "upload_img", "upload_input" >>
           /\ alpha_pc = "idle"
           /\ pc # "prove_alpha"
           /\ session = NoSession
           /\ reqs[cur].journal.err = "Failed to upload input data"

\* C13 witness: the input upload failed and the relay has the error.
C13_Witness ==
    /\ upload_res.input.err = "upload_input"
    /\ calls = << "upload_img", "upload_input" >>
    /\ pc = "panicked"

\* ------------------------------------------------------------------------
\* resolve_guest_entry and prove_locally on their own: resolve_guest_entry is
\* public and takes any list and any selector (main takes the selector from
\* the command line); prove_locally is called for one answer of the engine
\* with either value of prove.

\* An entry whose name is not upper-case.
MulEntry ==
    [name |-> << "m", "u", "l" >>, elf |-> "mul.elf",
     image_id |-> << 1, 2, 3, 4, 5, 6, 7, 8 >>]

\* An entry with the image id of 32 zero bytes.
ZeroEntry ==
    [name |-> << "Z", "E", "R", "O" >>, elf |-> "zero.elf",
     image_id |-> << 0, 0, 0, 0, 0, 0, 0, 0 >>]

LookupEntries == { FibonacciEntry, SwapEntry, MulEntry, ZeroEntry }

LookupRegistries ==
    Registries \cup
    { << >>,
      << MulEntry >>,
      << FibonacciEntry, MulEntry, SwapEntry >>,
      << ZeroEntry, FibonacciEntry >> }

\* A name with its first letter in lower case and the others in upper case.
MixedCase(name) ==
    [i \in 1..Len(name) |-> IF i = 1 THEN to_lowercase(name)[i] ELSE to_uppercase(name)[i]]

\* An entry's name in several letter cases.
NameForms(e) == { e.name, to_lowercase(e.name), to_uppercase(e.name), MixedCase(e.name) }

\* The lowercase hex of an entry's image id, bare and with 0x before it.
HexForms(e) ==
    { hex_encode(cast_u32x8_u8x32(e.image_id)),
      << "0", "x" >> \o hex_encode(cast_u32x8_u8x32(e.image_id)) }

\* Selectors that are no name and no image id of LookupEntries.
OtherSelectors ==
    { << >>,
      << "z", "z" >>,
      << "a", "b", "c" >>,
      << "0", "0" >>,
      << "0", "x" >>,
      << "f", "a", "c", "e" >>,
      SubSeq(hex_encode(cast_u32x8_u8x32(FibonacciEntry.image_id)), 1, 62),
      hex_encode(cast_u32x8_u8x32(FibonacciEntry.image_id)) \o << "0", "0" >>,
      hex_encode(cast_u32x8_u8x32(<< 9, 9, 9, 9, 9, 9, 9, 9 >>)) }

Selectors ==
    UNION { NameForms(e) \cup HexForms(e) : e \in LookupEntries } \cup OtherSelectors

InitPure ==
    /\ guest_list \in LookupRegistries
    /\ env_BONSAI_PROVING = << >>
    /\ pc = "pure"
    /\ reqs = << >>
    /\ submitted = << >>
    /\ panic_msg = ""
    /\ job = NoJob
    /\ alpha_pc = "idle"
    /\ calls = << >>
    /\ responses = << >>
    /\ slept = 0
    /\ uploads = NoSession
    /\ session = NoSession
    /\ receipt_buf = Pending
    /\ upload_res = NoUploads
    /\ images = { }
    /\ selector \in Selectors
    /\ found = Pending
    /\ engine \in EngineAnswers
    /\ plain = Pending
    /\ proved = Pending

\* resolve_guest_entry(guest_list, &selector)
Lookup ==
    /\ pc = "pure"
    /\ found.err = "pending"
    /\ found' = resolve_guest_entry(guest_list, selector)
    /\ UNCHANGED << selector, engine, plain, proved >>
    /\ UNCHANGED << relay_vars, job, calls >>
    /\ UNCHANGED alpha_vars
    /\ UNCHANGED env_vars

\* prove_locally for the same elf, input and answer of the engine, once as
\* the catch-all arm of resolve_image_output calls it and once as the arm
\* "local" does.
LocalBoth ==
    /\ pc = "pure"
    /\ plain.err = "pending"
    /\ plain' = prove_locally_result(engine, Backend("").prove)
    /\ proved' = prove_locally_result(engine, Backend("local").prove)
    /\ UNCHANGED << selector, found, engine >>
    /\ UNCHANGED << relay_vars, job, calls >>
    /\ UNCHANGED alpha_vars
    /\ UNCHANGED env_vars

NextPure == Lookup \/ LocalBoth

SpecPure == InitPure /\ [][NextPure]_vars

\* ------------------------------------------------------------------------
\* Claims about resolve_guest_entry.

\* C14: for every entry of the list, its name in any letter case and the
\* lowercase hex of its image id, with or without 0x, resolve to that entry.
C14_ResolvesEveryEntry ==
    found.err # "pending" =>
        \A i \in 1..Len(guest_list) :
            selector \in NameForms(guest_list[i]) \cup HexForms(guest_list[i])
            => (found.ok /\ found.val = guest_list[i])

\* The selector hex-decodes (after to_lowercase and the 0x trim) to the 32
\* bytes of the entry's image id.
DecodesToIdOf(sel, e) ==
    LET d == hex_decode(trim_start_matches_0x(to_lowercase(sel)))
    IN  d.ok /\ d.val = cast_u32x8_u8x32(e.image_id)

\* The selector is the entry's name but for the letter case.
IsNameOf(sel, e) == to_uppercase(sel) = to_uppercase(e.name)

\* C15: a selector that decodes to no entry's image id and is no entry's
\* name, letter case aside, is unknown; a selector that is no hex of 32 bytes
\* resolves by name only.
C15_UnknownSelectorIsRejected ==
    found.err # "pending" =>
        /\ (\A i \in 1..Len(guest_list) :
                ~DecodesToIdOf(selector, guest_list[i]) /\ ~IsNameOf(selector, guest_list[i]))
            => found.err = "Unknown guest binary"
        /\ (found.ok /\ \A i \in 1..Len(guest_list) : ~DecodesToIdOf(selector, guest_list[i]))
            => IsNameOf(selector, found.val)

\* ------------------------------------------------------------------------
\* Claims about prove_locally.

\* C16 as stated: with the proof asked for, prove_locally returns what it
\* returns without: the same output whenever there is one.
C16_AttestationKeepsOutput ==
    plain.err # "pending" => (plain.ok => proved = plain)

\* C16 as amended: with the proof asked for, an output that is returned is
\* the output returned without it, and it is returned whenever the engine
\* proves the session; when the engine fails to prove it, the error of the
\* proof is returned in place of the output; the other errors are the same.
C16_AttestationKeepsOutputIfProved ==
    plain.err # "pending" =>
        /\ proved.ok => proved = plain
        /\ (plain.ok /\ engine.prove) => proved = plain
        /\ (plain.ok /\ ~engine.prove) => proved.err = "Failed to prove session"
        /\ ~plain.ok => proved = plain

\* C16 witness: the engine ran and proved the session, and both calls gave
\* the journal 01 02.
C16_Witness ==
    /\ engine.prove
    /\ plain = Ok(<< 1, 2 >>)
    /\ proved = Ok(<< 1, 2 >>)

\* ------------------------------------------------------------------------
\* Claims about the failures of the chain and the order of the remote calls.

ChainFailures == { "failed to send callback transaction",
                   "Failed to confirm callback transaction" }

\* C17: a failed send or confirmation of the callback transaction ends the
\* relay: the event it happened for is the last one pulled, its transaction
\* is the last one submitted and was submitted once, no backend runs, and
\* the task has ended with the panic of that failure; a failed subscription
\* ends it before any event is pulled.
C17_ChainFailureIsFatal ==
    /\ \A i \in 1..Len(reqs) :
        reqs[i].phase = "failed"
        => /\ i = Len(reqs)
           /\ pc = "panicked"
           /\ panic_msg \in ChainFailures
           /\ Cardinality(SubmissionsOf(i)) = 1
           /\ submitted[Len(submitted)].ev = i
           /\ alpha_pc = "idle"
    /\ panic_msg \in ChainFailures => (cur > 0 /\ reqs[cur].phase = "failed")
    /\ panic_msg = "Failed to subscribe to ethereum event logs"
        => (reqs = << >> /\ submitted = << >>)

\* C17 witness: the confirmation of the second event's transaction failed
\* with events left to pull, and the task has ended.
C17_Witness ==
    /\ Len(reqs) = 2
    /\ Len(reqs) < MaxEvents
    /\ reqs[2].phase = "failed"
    /\ panic_msg = "Failed to confirm callback transaction"
    /\ pc = "panicked"

\* The remote calls a dispatch has made when it returned with the error e.
CallsAtError(e) ==
    CASE e \in { "Failed to create client from env var",
                 "Failed to generate elf memory image" }      -> { 0 }
      [] e = "upload_img"                                     -> { 1 }
      [] e = "Failed to upload input data"                    -> { 2 }
      [] e = "Failed to create remote proving session"        -> { 3 }
      [] OTHER                                                -> { n \in 4..Len(calls) : n = Len(calls) }

\* C18: the remote calls of a dispatch are upload_img, upload_input,
\* create_session, then status queries with a sleep between two of them,
\* then at most one download, which follows a SUCCEEDED response with a
\* receipt_url and is the last call; the session is the one of the image id
\* and the input id of the uploads and exists before the first status query;
\* and a dispatch that has returned made its last call where it returned.
C18_RemoteCallOrder ==
    env_BONSAI_PROVING = << "bonsai" >> =>
        /\ \A p \in 1..Len(calls) :
            /\ calls[p] = "upload_img" <=> p = 1
            /\ calls[p] = "upload_input" <=> p = 2
            /\ calls[p] = "create_session" <=> p = 3
            /\ calls[p] = "status" => (p >= 4 /\ p % 2 = 0 /\ session # NoSession)
            /\ calls[p] = "sleep" => (p >= 5 /\ p % 2 = 1)
            /\ calls[p] = "download"
                => /\ p >= 5
                   /\ p = Len(calls)
                   /\ calls[p - 1] = "status"
                   /\ responses[Len(responses)] = StatusRes("SUCCEEDED", << "receipt-url" >>)
        /\ Count(calls, "create_session") <= 1
        /\ Count(calls, "download") <= 1
        /\ session # NoSession
            => /\ calls[3] = "create_session"
               /\ session.img_id = get_digest(job.elf)
               /\ session.img_id = hex_encode(event.image_id)
               /\ upload_res.input.ok
               /\ session.input_id = upload_res.input.val
        /\ (cur > 0 /\ reqs[cur].journal.err # "pending")
            => /\ alpha_pc = "idle"
               /\ pc # "prove_alpha"
               /\ reqs[cur].journal.ok
                    => (calls[Len(calls)] = "download" /\ receipt_buf.ok)
               /\ ~reqs[cur].journal.ok
                    => Len(calls) \in CallsAtError(reqs[cur].journal.err)
               /\ reqs[cur].journal.err \in { "Failed to download receipt",
                                              "Failed to deserialize SessionReceipt" }
                    => calls[Len(calls)] = "download"

\* C18 witness: a dispatch made every kind of remote call, in order, and
\* returned the journal.
C18_Witness ==
    /\ calls = << "upload_img", "upload_input", "create_session",
                  "status", "sleep", "status", "download" >>
    /\ reqs[cur].journal = Ok(<< 1, 2 >>)
    /\ pc = "journal"

\* ------------------------------------------------------------------------
\* Claims about what a callback is made of.

\* The last 32 bytes of a payload.
PayloadTail(payload) == SubSeq(payload, Len(payload) - 31, Len(payload))

\* The registry entries that hold the binary elf.
EntriesOf(elf) == { n \in 1..Len(guest_list) : guest_list[n].elf = elf }

LiveSpec ==
    /\ Init
    /\ [][Next]_vars
    /\ WF_vars(Status)
    /\ WF_vars(Sleep)
    /\ WF_vars(Download)

\* The session exists and no status query has had a terminal answer.
OnlyWaits ==
    /\ session # NoSession
    /\ \A n \in 1..Len(responses) : NonTerminal(responses[n])

\* The last status query had an answer other than RUNNING.
TerminalAnswered ==
    /\ responses # << >>
    /\ ~NonTerminal(responses[Len(responses)])

\* prove_alpha has returned an output or an error to the relay.
Terminated ==
    /\ cur > 0
    /\ alpha_pc = "idle"
    /\ pc # "prove_alpha"
    /\ reqs[cur].journal.err # "pending"

\* C20: once a status query is answered with a status other than RUNNING,
\* prove_alpha returns, with an output or an error; and while every status
\* query has failed or answered RUNNING, prove_alpha has not returned and
\* the relay is still at the event of that dispatch.
C20_PollLoopLiveness ==
    /\ [](OnlyWaits => /\ pc = "prove_alpha"
                       /\ alpha_pc \in { "status", "sleep" }
                       /\ reqs[cur].journal.err = "pending"
                       /\ reqs[cur].phase = "proving")
    /\ [][OnlyWaits => reqs'[cur] .event = reqs[cur].event /\ Len(reqs') = Len(reqs)]_vars
    /\ (TerminalAnswered ~> Terminated)

\* C20 witness: after a failed query and a RUNNING answer, SUCCEEDED came
\* and prove_alpha returned the output.
C20_Witness ==
    /\ Len(responses) = 3
    /\ ~responses[1].ok
    /\ responses[2].ok
    /\ responses[2].status = "RUNNING"
    /\ TerminalAnswered
    /\ Terminated
    /\ reqs[cur].journal.ok

====
